---- MODULE Spec2Model ----
(***************************************************************************)
(* Worker-process RPC transport of the Electron main process               *)
(* (src/src/main/main.js): startRuntime, its stdout / error / exit         *)
(* handlers, and sendRpc.                                                  *)
(*                                                                         *)
(* Text on the worker's stdout is a sequence of tokens.  A JSON object is  *)
(* the two tokens  open rb : everything up to its closing brace, then the  *)
(* brace.  A line ends with the token nl.  A cut of the stream into chunks *)
(* may fall between any two tokens: inside an object, or before a newline. *)
(***************************************************************************)
EXTENDS Integers, Sequences, FiniteSets, TLC

\* ---------------------------------------------------------------- bounds
MaxCalls == 2
MaxProcs == 2
MaxLines == 2

\* ------------------------------------------------------------- constants
NoId == 0
NoProc == 0
NoExitCode == "null"
SpawnErrno == "ENOENT"
ExitCodes == {"1", NoExitCode}

Absent == "<absent>"
GenericRuntimeError == "Runtime error"
NotRunningMessage == "Runtime process is not running"
RuntimePath == "/app/runtime/gpu-runtime/target/debug/gpu-runtime"
ErrMsgs == {Absent, "", "nope"}

\* ------------------------------------------------------ messages, tokens
\* A decoded stdout message: the fields the handler looks at.
NoMsg == [id |-> NoId, event |-> Absent, error |-> FALSE, errmsg |-> Absent, result |-> Absent]

OkResponse(k, r) == [id |-> k, event |-> Absent, error |-> FALSE, errmsg |-> Absent, result |-> r]

ErrResponse(k, m) == [id |-> k, event |-> Absent, error |-> TRUE, errmsg |-> m, result |-> Absent]

EventMsg(e) == [id |-> NoId, event |-> e, error |-> FALSE, errmsg |-> Absent, result |-> Absent]

IsResponse(m) == m.id # NoId /\ m.event = Absent

IsEvent(m) == m.event # Absent /\ m.id = NoId

RB == [t |-> "rb", m |-> NoMsg]

NL == [t |-> "nl", m |-> NoMsg]

Junk == [t |-> "junk", m |-> NoMsg]

Open(m) == [t |-> "open", m |-> m]

\* JSON.stringify of a message object, without the newline.
EncodeMsg(m) == <<Open(m), RB>>

\* The text "{garbage": an opening brace that never closes.
GarbageText == <<Junk>>

\* What the worker may print on one line.
\* The result the worker computes for request k: each request has its own.
ResultOf(k) == "result-" \o ToString(k)

WorkerMsgs(ids) ==
  {OkResponse(k, ResultOf(k)) : k \in ids}
    \cup {ErrResponse(k, m) : k \in ids, m \in ErrMsgs}
    \cup {EventMsg("log")}

WorkerLines(ids) == {EncodeMsg(m) : m \in WorkerMsgs(ids)} \cup {GarbageText}

\* The lines of a worker that only answers the requests it has read.
AnswerLines(stdin) == {EncodeMsg(OkResponse(stdin[i].id, ResultOf(stdin[i].id))) : i \in 1..Len(stdin)}

\* JSON.parse(line): succeeds exactly on a complete object.
ParseOk(line) ==
  Len(line) = 2 /\ line[1].t = "open" /\ line[2].t = "rb"

ParseMsg(line) == line[1].m

\* chunk.split('\n'): the pieces between newlines, empty pieces included.
RECURSIVE SplitNL(_, _)
SplitNL(text, cur) ==
  IF text = <<>> THEN <<cur>>
  ELSE IF Head(text).t = "nl" THEN <<cur>> \o SplitNL(Tail(text), <<>>)
  ELSE SplitNL(Tail(text), Append(cur, Head(text)))

\* .filter(Boolean): drop the empty strings.
RECURSIVE FilterNonEmpty(_)
FilterNonEmpty(ps) ==
  IF ps = <<>> THEN <<>>
  ELSE IF Head(ps) = <<>> THEN FilterNonEmpty(Tail(ps))
  ELSE <<Head(ps)>> \o FilterNonEmpty(Tail(ps))

ChunkLines(chunk) == FilterNonEmpty(SplitNL(chunk, <<>>))

\* ----------------------------------------------------------------- state
VARIABLES
  runtimeProcess,   \* module variable: index into procs, NoProc for null
  rpcCounter,       \* module variable: next request id
  pending,          \* keys of the pending Map
  calls,            \* the promise returned for each allocated id
  procs,            \* every child process spawned so far, in spawn order
  stdoutBuf,        \* text the worker has printed that no data event has delivered yet
  held,             \* text delivered since the last newline was delivered
  mainWindow,       \* TRUE when mainWindow refers to a window
  windowSent,       \* messages sent to the window on 'runtime:event'
  dialogs,          \* dialog.showErrorBox calls made so far
  shouldAutoStart,  \* module constant read from the environment at load
  binaryExists,     \* fs.existsSync(runtimePath)
  lastCall,         \* how the latest sendRpc invocation returned
  linesWritten,     \* lines printed by workers so far
  lastChunk,        \* the chunk passed to the latest stdout data callback
  activeDownloads,  \* module variable: the Map from model id to its download handle
  transfers,        \* the latest downloadModel call of each model and lane: request, streams, promise
  files,            \* the models directory: what each path holds
  lastOp,           \* the latest model-manager step and what it returned
  assetRun,         \* scripts/download-assets.js: the asset being fetched and how far it got
  manager           \* ModelManager.jsx: component state, running handleDownload calls, the log

rpcVars ==
  <<runtimeProcess, rpcCounter, pending, calls, procs, stdoutBuf, held, mainWindow,
    windowSent, dialogs, shouldAutoStart, binaryExists, lastCall, linesWritten, lastChunk>>

dlVars == <<activeDownloads, transfers, files, lastOp>>

vars == <<rpcVars, dlVars, assetRun, manager>>

\* ------------------------------------------------------- model catalog
MaxHops == 2        \* redirect responses one transfer may be served
BodyChunks == 2     \* 'data' events that deliver one whole response body

\* One entry of the Whisper catalog and the VAD model; sizes count body chunks.
WHISPER_MODELS == <<[id |-> "base", filename |-> "ggml-base.bin", sizeBytes |-> BodyChunks]>>

VAD_MODEL == [id |-> "silero-vad", filename |-> "silero_vad.bin", sizeBytes |-> BodyChunks]

NoModel == [id |-> Absent, filename |-> Absent, sizeBytes |-> 0]

CatalogIds == {WHISPER_MODELS[i].id : i \in 1..Len(WHISPER_MODELS)} \cup {VAD_MODEL.id}

\* Ids a caller may pass: the catalog and one id that is in no catalog.
ModelIds == CatalogIds \cup {"missing"}

\* modelId === 'silero-vad' ? VAD_MODEL : WHISPER_MODELS.find((m) => m.id === modelId)
FindModel(modelId) ==
  IF modelId = "silero-vad" THEN VAD_MODEL
  ELSE IF \E i \in 1..Len(WHISPER_MODELS) : WHISPER_MODELS[i].id = modelId
       THEN WHISPER_MODELS[CHOOSE i \in 1..Len(WHISPER_MODELS) : WHISPER_MODELS[i].id = modelId]
       ELSE NoModel

\* path.join(modelsDir, model.filename)
DestPath(model) == model.filename

\* `${destPath}.download`
TempPath(model) == DestPath(model) \o ".download"

Paths == UNION {{DestPath(FindModel(id)), TempPath(FindModel(id))} : id \in CatalogIds}

\* by: the lane of the transfer that wrote the file, Former once that lane starts another.
Former == "former"

NoFile == [exists |-> FALSE, size |-> 0, by |-> Former]

\* Transfers of one model that may be in flight together.
Lanes == {"a", "b"}

NoHandle == "none"

NoTransfer ==
  [req |-> "none", res |-> "none", file |-> "none", promise |-> "none",
   value |-> Absent, served |-> 0, gets |-> 0, downloadedBytes |-> 0, aborts |-> 0,
   contentLength |-> <<>>, body |-> 0, totalBytes |-> 0, progress |-> <<>>]

NoOp == [op |-> "none", id |-> Absent, ret |-> Absent]

UnknownModelError(modelId) == "Unknown model: " \o modelId

DownloadFailedError(status) == "Download failed with status " \o ToString(status)

StreamError == "stream error"

\* The responses a server may give to one GET.
\* A header value is a string, held as its characters; a header that is not there is <<>>.
DigitChars == <<"0", "1", "2", "3", "4", "5", "6", "7", "8", "9">>

IsDigit(c) == \E d \in 1..Len(DigitChars) : DigitChars[d] = c

DigitOf(c) == (CHOOSE d \in 1..Len(DigitChars) : DigitChars[d] = c) - 1

RECURSIVE ParseDigits(_, _)
ParseDigits(s, acc) ==
  IF s = <<>> \/ ~IsDigit(Head(s)) THEN acc
  ELSE ParseDigits(Tail(s), 10 * acc + DigitOf(Head(s)))

\* parseInt(s, 10): the number its leading digits spell, NaN when it has none
ParseInt(s) ==
  IF s = <<>> \/ ~IsDigit(Head(s)) THEN [isNaN |-> TRUE, n |-> 0]
  ELSE [isNaN |-> FALSE, n |-> ParseDigits(s, 0)]

\* parseInt(res.headers['content-length'], 10) || model.sizeBytes
TotalBytes(header, model) ==
  LET parsed == ParseInt(header)
  IN IF parsed.isNaN \/ parsed.n = 0 THEN model.sizeBytes ELSE parsed.n

\* Math.round((downloadedBytes / totalBytes) * 100)
ProgressPercent(downloadedBytes, totalBytes) ==
  (200 * downloadedBytes + totalBytes) \div (2 * totalBytes)

\* What a server answers: a status, a Location header or none, a Content-Length header or
\* none, and the number of chunks in the body. These carry a whole body of BodyChunks.
Responses ==
  {[status |-> 200, location |-> FALSE, contentLength |-> <<DigitChars[BodyChunks + 1]>>,
    body |-> BodyChunks],
   [status |-> 302, location |-> TRUE, contentLength |-> <<>>, body |-> 0],
   [status |-> 302, location |-> FALSE, contentLength |-> <<DigitChars[BodyChunks + 1]>>,
    body |-> BodyChunks],
   [status |-> 404, location |-> FALSE, contentLength |-> <<>>, body |-> 0]}

\* Answers with a body of any length up to BodyChunks: with a Content-Length header that
\* tells its length, or delimited by the end of the connection, with no such header.
SizedResponses ==
  UNION {{[status |-> 200, location |-> FALSE, contentLength |-> h, body |-> b] :
            h \in {<<>>, <<DigitChars[b + 1]>>}} : b \in 0..BodyChunks}

\* ------------------------------------------- scripts/download-assets.js
\* What a download may deliver: gzip data, or data gunzip cannot read.
Contents == {"gzip", "plain"}

\* hash.digest('hex') of the bytes: one digest per content, different contents differ
Sha256(content) == "sha256:" \o content

REPLACE_ME == "REPLACE_ME"

\* A manifest entry: sha256, extract and mode may be missing (""); dest may end in .gz.
Assets ==
  [sha256 : {"", REPLACE_ME} \cup {Sha256(c) : c \in Contents},
   extract : {"", "gunzip"}, destGz : BOOLEAN, mode : {"", "755"}]

Platforms == {"win32", "linux"}

NoRun ==
  [pc |-> "idle", platform |-> "unset",
   asset |-> [sha256 |-> "", extract |-> "", destGz |-> FALSE, mode |-> ""],
   actualHash |-> "", dest |-> Absent, extracted |-> Absent, chmod |-> Absent,
   outcome |-> "none", error |-> Absent]

\* ------------------------------------------------ ModelManager.jsx
MaxDownloads == 2   \* handleDownload calls in one session

\* A handleDownload call: where it is, the downloadCancelled and selectedModel its
\* closure holds, and whether the user has cancelled this download.
NoDownload ==
  [state |-> "none", downloadCancelled |-> FALSE, selectedModel |-> Absent,
   userCancelled |-> FALSE]

NoManager ==
  [downloadCancelled |-> FALSE, activeDownload |-> Absent, downloading |-> {},
   selectedModel |-> Absent,
   handleDownload |-> [id \in CatalogIds |-> NoDownload], started |-> 0, log |-> <<>>,
   cancelRequests |-> <<>>]

\* How the await of window.aerModels.download ends: with the handler's result, or with a
\* rejection of the invoke itself.
DownloadResults ==
  {[success |-> TRUE, error |-> Absent, rejected |-> FALSE],
   [success |-> FALSE, error |-> "Download failed with status 404", rejected |-> FALSE],
   [success |-> FALSE, error |-> "aborted", rejected |-> FALSE],
   [success |-> FALSE, error |-> "No handler registered", rejected |-> TRUE]}

Methods == {"ping"}

NoCall == [state |-> "none", value |-> Absent, proc |-> NoProc]

NewProc(trigger) ==
  [status |-> "spawning", exitCode |-> NoExitCode, stdin |-> <<>>, trigger |-> trigger]

MissingDialog ==
  <<"Runtime missing", "Runtime binary not found at ", RuntimePath,
    ". Build it with pnpm build:runtime.">>

ErrorDialog(text) == <<"Runtime error", text>>

\* ------------------------------------------------- stdout 'data' handler
\* message.id && pending.has(message.id): the key whose entry is taken.
MatchPendingFifo(pend, id) ==
  IF id # NoId /\ pend # {} THEN CHOOSE k \in pend : \A j \in pend : k <= j ELSE NoId

MatchPendingOrOldest(pend, id) ==
  IF id = NoId \/ pend = {} THEN NoId
  ELSE IF id \in pend THEN id
  ELSE CHOOSE k \in pend : \A j \in pend : k <= j

MatchPending(pend, id) == IF id # NoId /\ id \in pend THEN id ELSE NoId

\* message.error.message || 'Runtime error'
RejectTextGeneric(m) == GenericRuntimeError

RejectText(m) == IF m.errmsg = Absent \/ m.errmsg = "" THEN GenericRuntimeError ELSE m.errmsg

\* reject(new Error(...)) or resolve(message.result) on a promise.
Settle(c, m) ==
  IF c.state # "pending" THEN c
  ELSE IF m.error THEN [c EXCEPT !.state = "rejected", !.value = RejectText(m)]
  ELSE [c EXCEPT !.state = "resolved", !.value = m.result]

\* Events are handed on whether or not a window is there to take them.
DispatchAlwaysForward(st, m, mw) ==
  IF m.event # Absent THEN [st EXCEPT !.sent = Append(@, m)]
  ELSE LET k == MatchPending(st.pending, m.id) IN
       IF k # NoId
       THEN [st EXCEPT !.pending = @ \ {k}, !.calls[k] = Settle(@, m)]
       ELSE st

\* The entry stays in the map when its promise is settled.
DispatchKeepEntry(st, m, mw) ==
  IF m.event # Absent /\ mw THEN [st EXCEPT !.sent = Append(@, m)]
  ELSE LET k == MatchPending(st.pending, m.id) IN
       IF k # NoId
       THEN [st EXCEPT !.calls[k] = Settle(@, m)]
       ELSE st

\* Body of the try block for one parsed message.
Dispatch(st, m, mw) ==
  IF m.event # Absent /\ mw THEN [st EXCEPT !.sent = Append(@, m)]
  ELSE LET k == MatchPending(st.pending, m.id) IN
       IF k # NoId
       THEN [st EXCEPT !.pending = @ \ {k}, !.calls[k] = Settle(@, m)]
       ELSE st

\* One iteration of the for loop: try { JSON.parse ... } catch { console.error }.
HandleLine(st, line, mw) == IF ParseOk(line) THEN Dispatch(st, ParseMsg(line), mw) ELSE st

\* The for loop over the pieces of one chunk.
\* try { for (...) { ... } } catch: the first bad line ends the loop.
RECURSIVE HandleLinesAbort(_, _, _)
HandleLinesAbort(st, lines, mw) ==
  IF lines = <<>> THEN st
  ELSE IF ~ParseOk(Head(lines)) THEN st
  ELSE HandleLinesAbort(HandleLine(st, Head(lines), mw), Tail(lines), mw)

RECURSIVE HandleLines(_, _, _)
HandleLines(st, lines, mw) ==
  IF lines = <<>> THEN st
  ELSE HandleLines(HandleLine(st, Head(lines), mw), Tail(lines), mw)

OnData(st, chunk, mw) == HandleLines(st, ChunkLines(chunk), mw)

\* ------------------------------------------------------------ lifecycle
NotRunningAlways(rp, ps) == TRUE

\* !runtimeProcess || runtimeProcess.exitCode !== null
NotRunning(rp, ps) == rp = NoProc \/ ps[rp].exitCode # NoExitCode

\* The 'exit' handler's assignment to runtimeProcess.
OnExitKeep(rp, p) == rp

OnExit(rp, p) == NoProc

\* rpcCounter++
NextCounterStuck(c) == c

NextCounter(c) == c + 1

Init ==
  /\ runtimeProcess = NoProc
  /\ rpcCounter = 1
  /\ pending = {}
  /\ calls = [k \in 1..MaxCalls |-> NoCall]
  /\ procs = <<>>
  /\ stdoutBuf = [p \in 1..MaxProcs |-> <<>>]
  /\ held = [p \in 1..MaxProcs |-> <<>>]
  /\ mainWindow = FALSE
  /\ windowSent = <<>>
  /\ dialogs = {}
  /\ shouldAutoStart \in BOOLEAN
  /\ binaryExists \in BOOLEAN
  /\ lastCall = [kind |-> "none", msg |-> <<>>, id |-> NoId]
  /\ linesWritten = 0
  /\ lastChunk = <<>>
  /\ activeDownloads = [id \in ModelIds |-> NoHandle]
  /\ transfers = [id \in CatalogIds |-> [l \in Lanes |-> NoTransfer]]
  /\ files = [f \in Paths |-> NoFile]
  /\ lastOp = NoOp
  /\ assetRun = NoRun
  /\ manager = NoManager

\* startRuntime() called on its own (initApp, or the exported function).
StartRuntime ==
  /\ IF binaryExists
     THEN /\ Len(procs) < MaxProcs
          /\ procs' = Append(procs, NewProc(NoId))
          /\ runtimeProcess' = Len(procs) + 1
          /\ UNCHANGED dialogs
     ELSE /\ dialogs' = dialogs \cup {MissingDialog}
          /\ UNCHANGED <<procs, runtimeProcess>>
  /\ UNCHANGED <<rpcCounter, pending, calls, stdoutBuf, held, mainWindow, windowSent,
                 shouldAutoStart, binaryExists, lastCall, linesWritten,
                 lastChunk>>
  /\ UNCHANGED <<dlVars, assetRun, manager>>

\* sendRpc(method)
SendRpc(method) ==
  /\ LET tryStart == NotRunning(runtimeProcess, procs) /\ shouldAutoStart
         spawns == tryStart /\ binaryExists
         id == rpcCounter
         procs1 == IF spawns THEN Append(procs, NewProc(id)) ELSE procs
         rp1 == IF spawns THEN Len(procs) + 1 ELSE runtimeProcess
     IN /\ spawns => Len(procs) < MaxProcs
        /\ dialogs' = IF tryStart /\ ~binaryExists THEN dialogs \cup {MissingDialog} ELSE dialogs
        /\ IF NotRunning(rp1, procs1)
           THEN /\ lastCall' = [kind |-> "throw",
                                msg |-> <<NotRunningMessage>>, id |-> NoId]
                /\ procs' = procs1
                /\ runtimeProcess' = rp1
                /\ UNCHANGED <<rpcCounter, pending, calls>>
           ELSE /\ id <= MaxCalls
                /\ rpcCounter' = NextCounter(rpcCounter)
                /\ pending' = pending \cup {id}
                /\ calls' = [calls EXCEPT ![id] = [state |-> "pending", value |-> Absent, proc |-> rp1]]
                /\ procs' = [procs1 EXCEPT ![rp1].stdin = Append(@, [id |-> id, method |-> method])]
                /\ runtimeProcess' = rp1
                /\ lastCall' = [kind |-> "promise", msg |-> <<>>, id |-> id]
  /\ UNCHANGED <<stdoutBuf, held, mainWindow, windowSent, shouldAutoStart, binaryExists,
                 linesWritten,
                 lastChunk>>
  /\ UNCHANGED <<dlVars, assetRun, manager>>

\* The child reports that it is running.
WorkerUp(p) ==
  /\ p \in 1..Len(procs)
  /\ procs[p].status = "spawning"
  /\ procs' = [procs EXCEPT ![p].status = "running"]
  /\ UNCHANGED <<runtimeProcess, rpcCounter, pending, calls, stdoutBuf, held, mainWindow,
                 windowSent, dialogs, shouldAutoStart, binaryExists, lastCall, linesWritten,
                 lastChunk>>
  /\ UNCHANGED <<dlVars, assetRun, manager>>

\* The spawn fails: the child gets a negative exit code and emits 'error', never 'exit'.
SpawnError(p) ==
  /\ p \in 1..Len(procs)
  /\ procs[p].status = "spawning"
  /\ procs' = [procs EXCEPT ![p].status = "failed", ![p].exitCode = SpawnErrno]
  /\ dialogs' = dialogs \cup {ErrorDialog("spawn ENOENT")}
  /\ UNCHANGED <<runtimeProcess, rpcCounter, pending, calls, stdoutBuf, held, mainWindow,
                 windowSent, shouldAutoStart, binaryExists, lastCall, linesWritten,
                 lastChunk>>
  /\ UNCHANGED <<dlVars, assetRun, manager>>

\* The child exits with a code, or is killed by a signal (exitCode stays null).
ProcExit(p, code) ==
  /\ p \in 1..Len(procs)
  /\ procs[p].status = "running"
  /\ procs' = [procs EXCEPT ![p].status = "exited", ![p].exitCode = code]
  /\ runtimeProcess' = OnExit(runtimeProcess, p)
  /\ UNCHANGED <<rpcCounter, pending, calls, stdoutBuf, held, mainWindow, windowSent, dialogs,
                 shouldAutoStart, binaryExists, lastCall, linesWritten,
                 lastChunk>>
  /\ UNCHANGED <<dlVars, assetRun, manager>>

\* The worker prints one line on its stdout.
WorkerWrite(p, line) ==
  /\ p \in 1..Len(procs)
  /\ procs[p].status = "running"
  /\ linesWritten < MaxLines
  /\ linesWritten' = linesWritten + 1
  /\ stdoutBuf' = [stdoutBuf EXCEPT ![p] = @ \o line \o <<NL>>]
  /\ UNCHANGED <<runtimeProcess, rpcCounter, pending, calls, procs, held, mainWindow,
                 windowSent, dialogs, shouldAutoStart, binaryExists, lastCall,
                 lastChunk>>
  /\ UNCHANGED <<dlVars, assetRun, manager>>

\* Text after the last newline of t.
RECURSIVE AfterLastNL(_, _)
AfterLastNL(text, cur) ==
  IF text = <<>> THEN cur
  ELSE IF Head(text).t = "nl" THEN AfterLastNL(Tail(text), <<>>)
  ELSE AfterLastNL(Tail(text), Append(cur, Head(text)))

\* A 'data' event delivers the next n tokens of the worker's output as one chunk.
Data(p, n) ==
  /\ p \in 1..Len(procs)
  /\ n \in 1..Len(stdoutBuf[p])
  /\ LET chunk == SubSeq(stdoutBuf[p], 1, n)
         st == OnData([pending |-> pending, calls |-> calls, sent |-> windowSent],
                      chunk, mainWindow)
     IN /\ pending' = st.pending
        /\ calls' = st.calls
        /\ windowSent' = st.sent
        /\ stdoutBuf' = [stdoutBuf EXCEPT ![p] = SubSeq(@, n + 1, Len(@))]
        /\ held' = [held EXCEPT ![p] = AfterLastNL(chunk, @)]
        /\ lastChunk' = chunk
  /\ UNCHANGED <<runtimeProcess, rpcCounter, procs, mainWindow, dialogs, shouldAutoStart,
                 binaryExists, lastCall, linesWritten>>
  /\ UNCHANGED <<dlVars, assetRun, manager>>

\* createWindow() / setMainWindow(ref)
SetMainWindow(w) ==
  /\ mainWindow # w
  /\ mainWindow' = w
  /\ UNCHANGED <<runtimeProcess, rpcCounter, pending, calls, procs, stdoutBuf, held,
                 windowSent, dialogs, shouldAutoStart, binaryExists, lastCall, linesWritten,
                 lastChunk>>
  /\ UNCHANGED <<dlVars, assetRun, manager>>

\* The runtime binary disappears from disk (a clean, a failed rebuild).
BinaryRemoved ==
  /\ binaryExists
  /\ binaryExists' = FALSE
  /\ UNCHANGED <<runtimeProcess, rpcCounter, pending, calls, procs, stdoutBuf, held,
                 mainWindow, windowSent, dialogs, shouldAutoStart, lastCall, linesWritten,
                 lastChunk>>
  /\ UNCHANGED <<dlVars, assetRun, manager>>

\* Every process runs an honest worker; each data event delivers all it has printed.
Next ==
  \/ StartRuntime
  \/ \E m \in Methods : SendRpc(m)
  \/ \E p \in 1..MaxProcs : WorkerUp(p)
  \/ \E p \in 1..MaxProcs : SpawnError(p)
  \/ \E p \in 1..MaxProcs, code \in ExitCodes : ProcExit(p, code)
  \/ \E p \in 1..Len(procs) : \E line \in AnswerLines(procs[p].stdin) : WorkerWrite(p, line)
  \/ \E p \in 1..MaxProcs : Data(p, Len(stdoutBuf[p]))
  \/ BinaryRemoved

Spec == Init /\ [][Next]_vars

\* One worker process that stays up, printing any line of the protocol.
NextChannel ==
  \/ procs = <<>> /\ StartRuntime
  \/ \E m \in Methods : SendRpc(m)
  \/ \E p \in 1..MaxProcs : WorkerUp(p)
  \/ \E p \in 1..MaxProcs, line \in WorkerLines({k \in 1..MaxCalls : k <= rpcCounter}) :
       WorkerWrite(p, line)
  \/ \E p \in 1..Len(procs) : \E n \in 1..Len(stdoutBuf[p]) : Data(p, n)
  \/ \E w \in BOOLEAN : SetMainWindow(w)

InitChannel == Init /\ shouldAutoStart /\ binaryExists

SpecChannel == InitChannel /\ [][NextChannel]_vars

TypeOK ==
  /\ runtimeProcess \in 0..MaxProcs
  /\ rpcCounter \in 1..(MaxCalls + 1)
  /\ pending \subseteq 1..MaxCalls
  /\ Len(procs) <= MaxProcs

\* ------------------------------------------------------ model downloads
\* fs.existsSync(path)
ExistsSync(fs, path) == fs[path].exists

UnlinkSyncNothing(fs, path) == fs

\* fs.unlinkSync(path), for a path that exists
UnlinkSync(fs, path) == [fs EXCEPT ![path] = NoFile]

\* fs.renameSync(from, to), for a source that exists
RenameSync(fs, from, to) == [fs EXCEPT ![to] = fs[from], ![from] = NoFile]

StreamPathFinal(model) == DestPath(model)

\* The path fs.createWriteStream is given.
StreamPath(model) == TempPath(model)

\* activeDownloads.set(modelId, handle)
RegistrySet(reg, modelId, h) == [reg EXCEPT ![modelId] = h]

RegistryKeep(reg, modelId) == reg

RegistryClear(reg, modelId) == [id \in ModelIds |-> NoHandle]

\* activeDownloads.delete(modelId)
RegistryDelete(reg, modelId) == [reg EXCEPT ![modelId] = NoHandle]

IsRedirectNever(r) == FALSE

\* res.statusCode >= 300 && res.statusCode < 400 && res.headers.location
IsRedirect(r) == r.status >= 300 /\ r.status < 400 /\ r.location

\* resolve(value) and reject(err): a settled promise stays as it is.
Resolve(tr, value) ==
  IF tr.promise = "pending" THEN [tr EXCEPT !.promise = "resolved", !.value = value] ELSE tr

Reject(tr, err) ==
  IF tr.promise = "pending" THEN [tr EXCEPT !.promise = "rejected", !.value = err] ELSE tr

\* A transfer that can still receive an event that touches the registry or a file.
InFlight(tr) ==
  \/ tr.promise = "pending"
  \/ tr.res \in {"flowing", "broken", "destroyed"}
  \/ tr.file = "opening"
  \/ tr.file \in {"open", "finished"} /\ tr.res = "ended"

Busy(modelId) == \E l \in Lanes : InFlight(transfers[modelId][l])

\* downloadModel(modelId, onProgress) for a catalog id, up to the first client.get
DownloadModel(modelId, l) ==
  /\ modelId \in CatalogIds
  /\ ~InFlight(transfers[modelId][l])
  /\ \A k \in Lanes : InFlight(transfers[modelId][k]) \/ k = l \/ l = "a"
  /\ transfers' = [transfers EXCEPT ![modelId][l] =
                     [NoTransfer EXCEPT !.promise = "pending", !.req = "sent", !.gets = 1]]
  /\ files' = [f \in Paths |->
                 IF f \in {DestPath(FindModel(modelId)), TempPath(FindModel(modelId))} /\ files[f].by = l
                 THEN [files[f] EXCEPT !.by = Former] ELSE files[f]]
  /\ UNCHANGED <<activeDownloads, lastOp>>
  /\ UNCHANGED <<rpcVars, assetRun, manager>>

\* downloadModel(modelId, onProgress) for an id that is in no catalog
DownloadUnknown(modelId) ==
  /\ FindModel(modelId) = NoModel
  /\ lastOp' = [op |-> "download", id |-> modelId, ret |-> UnknownModelError(modelId)]
  /\ UNCHANGED <<activeDownloads, transfers, files>>
  /\ UNCHANGED <<rpcVars, assetRun, manager>>

\* The callback of client.get runs with the response to the latest GET.
Response(id, l, r) ==
  /\ transfers[id][l].req = "sent"
  /\ (r.status >= 300 /\ r.status < 400 /\ r.location) => transfers[id][l].served < MaxHops
  /\ LET tr == [transfers[id][l] EXCEPT
                  !.served = IF r.status >= 300 /\ r.status < 400 /\ r.location THEN @ + 1 ELSE @]
     IN IF IsRedirect(r)
        THEN /\ transfers' = [transfers EXCEPT ![id][l] = [tr EXCEPT !.gets = @ + 1]]
             /\ UNCHANGED activeDownloads
        ELSE IF r.status >= 400
        THEN /\ transfers' = [transfers EXCEPT ![id][l] =
                                Reject([tr EXCEPT !.req = "done"], DownloadFailedError(r.status))]
             /\ UNCHANGED activeDownloads
        ELSE /\ transfers' = [transfers EXCEPT ![id][l] =
                                [tr EXCEPT !.req = "responded", !.res = "flowing", !.file = "opening",
                                           !.contentLength = r.contentLength, !.body = r.body,
                                           !.totalBytes = TotalBytes(r.contentLength, FindModel(id))]]
             /\ activeDownloads' = RegistrySet(activeDownloads, id, l)
  /\ UNCHANGED <<files, lastOp>>
  /\ UNCHANGED <<rpcVars, assetRun, manager>>

\* The write stream opens its path: the file is created, or emptied, and takes what was
\* piped in so far.
FileOpened(id, l) ==
  /\ transfers[id][l].file = "opening"
  /\ transfers' = [transfers EXCEPT ![id][l].file = "open"]
  /\ files' = [files EXCEPT ![StreamPath(FindModel(id))] =
                 [exists |-> TRUE, size |-> transfers[id][l].downloadedBytes,
                  by |-> l]]
  /\ UNCHANGED <<activeDownloads, lastOp>>
  /\ UNCHANGED <<rpcVars, assetRun, manager>>

\* res.on('data') counts the chunk; the pipe writes it to the stream's file.
ResData(id, l) ==
  /\ transfers[id][l].res = "flowing"
  /\ transfers[id][l].downloadedBytes < transfers[id][l].body
  /\ LET tr == transfers[id][l]
         downloadedBytes == tr.downloadedBytes + 1
     IN transfers' = [transfers EXCEPT ![id][l] =
                        [tr EXCEPT !.downloadedBytes = downloadedBytes,
                                   !.progress = Append(@,
                                      [modelId |-> id,
                                       progress |-> ProgressPercent(downloadedBytes, tr.totalBytes),
                                       downloadedBytes |-> downloadedBytes,
                                       totalBytes |-> tr.totalBytes])]]
  /\ LET path == StreamPath(FindModel(id))
     IN files' = IF /\ transfers[id][l].file = "open"
                    /\ files[path].exists
                    /\ files[path].by = l
                 THEN [files EXCEPT ![path].size = @ + 1]
                 ELSE files
  /\ UNCHANGED <<activeDownloads, lastOp>>
  /\ UNCHANGED <<rpcVars, assetRun, manager>>

\* The response ends after its whole body; the pipe ends the write stream.
ResEnd(id, l) ==
  /\ transfers[id][l].res = "flowing"
  /\ transfers[id][l].downloadedBytes = transfers[id][l].body
  /\ transfers' = [transfers EXCEPT ![id][l].res = "ended"]
  /\ UNCHANGED <<activeDownloads, files, lastOp>>
  /\ UNCHANGED <<rpcVars, assetRun, manager>>

\* file.on('finish'): every write is flushed; file.close(callback) is called.
FileFinish(id, l) ==
  /\ transfers[id][l].res = "ended"
  /\ transfers[id][l].file = "open"
  /\ transfers' = [transfers EXCEPT ![id][l].file = "finished"]
  /\ UNCHANGED <<activeDownloads, files, lastOp>>
  /\ UNCHANGED <<rpcVars, assetRun, manager>>

\* The callback of file.close: rename, unregister, resolve. renameSync throws when the
\* temp file is gone, and the rest of the callback does not run.
CloseCallback(id, l) ==
  /\ transfers[id][l].file = "finished"
  /\ LET model == FindModel(id)
         tr == [transfers[id][l] EXCEPT !.file = "closed"]
     IN IF ExistsSync(files, TempPath(model))
        THEN /\ files' = RenameSync(files, TempPath(model), DestPath(model))
             /\ activeDownloads' = RegistryDelete(activeDownloads, id)
             /\ transfers' = [transfers EXCEPT ![id][l] = Resolve(tr, DestPath(model))]
        ELSE /\ transfers' = [transfers EXCEPT ![id][l] = tr]
             /\ UNCHANGED <<files, activeDownloads>>
  /\ UNCHANGED lastOp
  /\ UNCHANGED <<rpcVars, assetRun, manager>>

\* The body shared by file.on('error') and res.on('error'): unlink the temp file,
\* unregister, reject. unlinkSync throws when there is no temp file, and the rest of the
\* handler does not run.
ErrorHandler(id, l, tr) ==
  LET model == FindModel(id)
  IN IF ExistsSync(files, TempPath(model))
     THEN /\ files' = UnlinkSync(files, TempPath(model))
          /\ activeDownloads' = RegistryDelete(activeDownloads, id)
          /\ transfers' = [transfers EXCEPT ![id][l] = Reject(tr, StreamError)]
     ELSE /\ transfers' = [transfers EXCEPT ![id][l] = tr]
          /\ UNCHANGED <<files, activeDownloads>>

\* The write stream fails, while opening its file or while writing to it.
FileError(id, l) ==
  /\ \/ transfers[id][l].file = "opening"
     \/ transfers[id][l].file = "open" /\ transfers[id][l].res \in {"flowing", "ended"}
  /\ ErrorHandler(id, l, [transfers[id][l] EXCEPT !.file = "errored"])
  /\ UNCHANGED lastOp
  /\ UNCHANGED <<rpcVars, assetRun, manager>>

\* The response stream emits 'error': the connection failed, or the stream was destroyed.
ResError(id, l) ==
  /\ transfers[id][l].res \in {"flowing", "broken", "destroyed"}
  /\ ErrorHandler(id, l, [transfers[id][l] EXCEPT !.res = "errored"])
  /\ UNCHANGED lastOp
  /\ UNCHANGED <<rpcVars, assetRun, manager>>

\* The request emits 'error' when its socket fails, before a response or during the body:
\* the handler is reject alone. No more of the body arrives.
RequestError(id, l) ==
  /\ \/ transfers[id][l].req = "sent"
     \/ transfers[id][l].req = "responded" /\ transfers[id][l].res = "flowing"
  /\ transfers' = [transfers EXCEPT ![id][l] =
                     Reject([transfers[id][l] EXCEPT !.req = "errored",
                                                     !.res = IF @ = "flowing" THEN "broken" ELSE @],
                            StreamError)]
  /\ UNCHANGED <<activeDownloads, files, lastOp>>
  /\ UNCHANGED <<rpcVars, assetRun, manager>>

\* abort: () => res.destroy(), which stops a response that is still flowing
Abort(tr) == [tr EXCEPT !.aborts = @ + 1, !.res = IF @ = "flowing" THEN "destroyed" ELSE @]

\* cancelDownload(modelId)
CancelDownload(modelId) ==
  /\ LET download == activeDownloads[modelId]
     IN IF download # NoHandle
        THEN /\ transfers' = [transfers EXCEPT ![modelId][download] = Abort(@)]
             /\ activeDownloads' = RegistryDelete(activeDownloads, modelId)
             /\ lastOp' = [op |-> "cancel", id |-> modelId, ret |-> "true"]
        ELSE /\ lastOp' = [op |-> "cancel", id |-> modelId, ret |-> "false"]
             /\ UNCHANGED <<transfers, activeDownloads>>
  /\ UNCHANGED files
  /\ UNCHANGED <<rpcVars, assetRun, manager>>

\* deleteModel(modelId)
DeleteModel(modelId) ==
  /\ LET model == FindModel(modelId)
     IN IF model = NoModel
        THEN /\ lastOp' = [op |-> "delete", id |-> modelId, ret |-> UnknownModelError(modelId)]
             /\ UNCHANGED files
        ELSE IF ExistsSync(files, DestPath(model))
        THEN /\ files' = UnlinkSync(files, DestPath(model))
             /\ lastOp' = [op |-> "delete", id |-> modelId, ret |-> "true"]
        ELSE /\ lastOp' = [op |-> "delete", id |-> modelId, ret |-> "false"]
             /\ UNCHANGED files
  /\ UNCHANGED <<activeDownloads, transfers>>
  /\ UNCHANGED <<rpcVars, assetRun, manager>>

\* The value the 'models:get-path' handler returns.
GetPathResult(fs, modelId) ==
  LET model == FindModel(modelId)
  IN IF model = NoModel THEN "null"
     ELSE IF ExistsSync(fs, DestPath(model)) THEN DestPath(model) ELSE "null"

\* ipcMain.handle('models:get-path')
GetPath(modelId) ==
  /\ lastOp' = [op |-> "getPath", id |-> modelId, ret |-> GetPathResult(files, modelId)]
  /\ UNCHANGED <<activeDownloads, transfers, files>>
  /\ UNCHANGED <<rpcVars, assetRun, manager>>

\* JavaScript numbers are IEEE-754 doubles. A natural number is held here as its binary
\* digits, lowest first, and a double as m * 2^-scale, m having 53 significant digits.
Zeros(k) == [i \in 1..k |-> 0]

\* x without its leading zeros
Trim(x) ==
  LET top == {i \in 1..Len(x) : x[i] # 0}
  IN SubSeq(x, 1, IF top = {} THEN 0 ELSE CHOOSE i \in top : \A j \in top : j <= i)

Bits(n) == Trim([i \in 1..31 |-> (n \div 2^(i - 1)) % 2])

\* Between binary digits and base-256 digits, both lowest first
DigitBits(x) ==
  Trim([i \in 1..(8 * Len(x)) |-> (x[(i - 1) \div 8 + 1] \div 2^((i - 1) % 8)) % 2])

BitDigits(b) ==
  LET B(i) == IF i <= Len(b) THEN b[i] ELSE 0
  IN [j \in 1..((Len(b) + 7) \div 8) |->
        B(8 * j - 7) + 2 * B(8 * j - 6) + 4 * B(8 * j - 5) + 8 * B(8 * j - 4)
          + 16 * B(8 * j - 3) + 32 * B(8 * j - 2) + 64 * B(8 * j - 1) + 128 * B(8 * j)]

\* x < y, for numbers without leading zeros
LessBits(x, y) ==
  \/ Len(x) < Len(y)
  \/ /\ Len(x) = Len(y)
     /\ \E i \in 1..Len(x) : x[i] < y[i] /\ \A j \in (i + 1)..Len(x) : x[j] = y[j]

\* x + 1
Increment(x) ==
  LET zs == {i \in 1..Len(x) : x[i] = 0}
      k == IF zs = {} THEN Len(x) + 1 ELSE CHOOSE i \in zs : \A j \in zs : i <= j
  IN [i \in 1..(IF k > Len(x) THEN k ELSE Len(x)) |->
        IF i < k THEN 0 ELSE IF i = k THEN 1 ELSE x[i]]

\* Long division of the base-256 number x by d, from digit i down: quotient, remainder.
RECURSIVE DivDigits(_, _, _, _, _)
DivDigits(x, d, i, rem, q) ==
  IF i = 0 THEN [q |-> q, rem |-> rem]
  ELSE LET r == 256 * rem + x[i]
       IN DivDigits(x, d, i - 1, r % d, <<r \div d>> \o q)

\* n times the base-256 number x, from digit i up
RECURSIVE MulDigits(_, _, _, _)
MulDigits(n, x, i, carry) ==
  IF i > Len(x)
  THEN (IF carry = 0 THEN <<>> ELSE <<carry % 256>> \o MulDigits(n, x, i, carry \div 256))
  ELSE LET t == n * x[i] + carry
       IN <<t % 256>> \o MulDigits(n, x, i + 1, t \div 256)

\* p rounded to 53 significant digits, ties to even; inexact says that p was cut off
\* from a larger number.
Round53(p, inexact) ==
  IF Len(p) <= 53 THEN p
  ELSE LET d == Len(p) - 53
           low == SubSeq(p, 1, d)
           kept == SubSeq(p, d + 1, Len(p))
           half == Zeros(d - 1) \o <<1>>
           up == \/ LessBits(half, Trim(low))
                 \/ low = half /\ (inexact \/ kept[1] = 1)
       IN Zeros(d) \o (IF up THEN Increment(kept) ELSE kept)

\* The double nearest to num / den, for a quotient between 1/8 and 256
DoubleOf(num, den) ==
  LET x == Zeros(7) \o <<num>>
      d == DivDigits(x, den, Len(x), 0, <<>>)
  IN [m |-> Round53(DigitBits(d.q), d.rem # 0), scale |-> 8 * (Len(x) - 1)]

\* n * x in double arithmetic, for a natural number n
TimesDouble(n, x) ==
  [m |-> Round53(DigitBits(MulDigits(n, BitDigits(x.m), 1, 0)), FALSE), scale |-> x.scale]

\* a <= x and x <= a, for a natural number a and a double x
IntLeqDouble(a, x) == ~LessBits(x.m, Zeros(x.scale) \o Bits(a))

DoubleLeqInt(x, a) == ~LessBits(Zeros(x.scale) \o Bits(a), x.m)

\* The literals 0.95 and 1.05
MinFactor == DoubleOf(95, 100)

MaxFactor == DoubleOf(105, 100)

IsCompleteExact(actualSize, expectedSize) == actualSize = expectedSize

\* isComplete(actualSize, expectedSize)
IsComplete(actualSize, expectedSize) ==
  \/ actualSize = expectedSize
  \/ /\ DoubleLeqInt(TimesDouble(expectedSize, MinFactor), actualSize)
     /\ IntLeqDouble(actualSize, TimesDouble(expectedSize, MaxFactor))

\* getInstalledModels(): one entry for each catalog model whose file is in the directory.
InstalledModels(fs) ==
  {[id |-> id, path |-> DestPath(FindModel(id)),
    installedSize |-> fs[DestPath(FindModel(id))].size,
    complete |-> IsComplete(fs[DestPath(FindModel(id))].size, FindModel(id).sizeBytes)] :
     id \in {i \in CatalogIds : ExistsSync(fs, DestPath(FindModel(i)))}}

\* ipcMain.handle('models:list-installed')
GetInstalledModels ==
  /\ lastOp' = [op |-> "list", id |-> Absent, ret |-> InstalledModels(files)]
  /\ UNCHANGED <<activeDownloads, transfers, files>>
  /\ UNCHANGED <<rpcVars, assetRun, manager>>

\* One model is downloaded in a run, any number of times and one transfer at a time,
\* against a network and a disk that may fail at any point; every call, with every id.
NextDownload ==
  \/ \E id \in CatalogIds, l \in Lanes :
       /\ ~Busy(id)
       /\ \A j \in CatalogIds \ {id} : transfers[j]["a"].promise = "none"
       /\ DownloadModel(id, l)
  \/ \E id \in ModelIds : DownloadUnknown(id)
  \/ \E id \in CatalogIds, l \in Lanes, r \in Responses : Response(id, l, r)
  \/ \E id \in CatalogIds, l \in Lanes : FileOpened(id, l)
  \/ \E id \in CatalogIds, l \in Lanes : ResData(id, l)
  \/ \E id \in CatalogIds, l \in Lanes : ResEnd(id, l)
  \/ \E id \in CatalogIds, l \in Lanes : FileFinish(id, l)
  \/ \E id \in CatalogIds, l \in Lanes : CloseCallback(id, l)
  \/ \E id \in CatalogIds, l \in Lanes : FileError(id, l)
  \/ \E id \in CatalogIds, l \in Lanes : ResError(id, l)
  \/ \E id \in CatalogIds, l \in Lanes : RequestError(id, l)
  \/ \E id \in ModelIds : CancelDownload(id)
  \/ \E id \in ModelIds : DeleteModel(id)
  \/ \E id \in ModelIds : GetPath(id)
  \/ GetInstalledModels

SpecDownload == InitChannel /\ [][NextDownload]_vars

\* The same, against a server that answers 200 with a body of any length.
NextProgress ==
  \/ \E id \in CatalogIds, l \in Lanes :
       /\ ~Busy(id)
       /\ \A j \in CatalogIds \ {id} : transfers[j]["a"].promise = "none"
       /\ DownloadModel(id, l)
  \/ \E id \in ModelIds : DownloadUnknown(id)
  \/ \E id \in CatalogIds, l \in Lanes, r \in SizedResponses : Response(id, l, r)
  \/ \E id \in CatalogIds, l \in Lanes : FileOpened(id, l)
  \/ \E id \in CatalogIds, l \in Lanes : ResData(id, l)
  \/ \E id \in CatalogIds, l \in Lanes : ResEnd(id, l)
  \/ \E id \in CatalogIds, l \in Lanes : FileFinish(id, l)
  \/ \E id \in CatalogIds, l \in Lanes : CloseCallback(id, l)
  \/ \E id \in CatalogIds, l \in Lanes : FileError(id, l)
  \/ \E id \in CatalogIds, l \in Lanes : ResError(id, l)
  \/ \E id \in CatalogIds, l \in Lanes : RequestError(id, l)
  \/ \E id \in ModelIds : CancelDownload(id)
  \/ \E id \in ModelIds : DeleteModel(id)
  \/ \E id \in ModelIds : GetPath(id)
  \/ GetInstalledModels

SpecProgress == InitChannel /\ [][NextProgress]_vars

\* Transfers against a network and a disk that keep delivering their events: a response
\* to every request, the body and its end, the open and the finish of the write stream
\* and the callback of its close, and an 'error' on a response that was destroyed or whose
\* connection broke. The server answers with redirects, an error status or a body of any
\* length; the request may fail, and cancel may come at any moment.
NextSettle ==
  \/ \E id \in CatalogIds, l \in Lanes :
       /\ ~Busy(id)
       /\ \A j \in CatalogIds \ {id} : transfers[j]["a"].promise = "none"
       /\ DownloadModel(id, l)
  \/ \E id \in CatalogIds, l \in Lanes, r \in Responses \cup SizedResponses : Response(id, l, r)
  \/ \E id \in CatalogIds, l \in Lanes : FileOpened(id, l)
  \/ \E id \in CatalogIds, l \in Lanes : ResData(id, l)
  \/ \E id \in CatalogIds, l \in Lanes : ResEnd(id, l)
  \/ \E id \in CatalogIds, l \in Lanes : FileFinish(id, l)
  \/ \E id \in CatalogIds, l \in Lanes : CloseCallback(id, l)
  \/ \E id \in CatalogIds, l \in Lanes : ResError(id, l)
  \/ \E id \in CatalogIds, l \in Lanes : RequestError(id, l)
  \/ \E id \in ModelIds : CancelDownload(id)

\* The 'error' of a response that stopped before its end
ResErrorAfterStop(id, l) == transfers[id][l].res \in {"broken", "destroyed"} /\ ResError(id, l)

Delivery ==
  \A id \in CatalogIds : \A l \in Lanes :
    /\ WF_vars(\E r \in Responses \cup SizedResponses : Response(id, l, r))
    /\ WF_vars(FileOpened(id, l))
    /\ WF_vars(ResData(id, l))
    /\ WF_vars(ResEnd(id, l))
    /\ WF_vars(FileFinish(id, l))
    /\ WF_vars(CloseCallback(id, l))
    /\ WF_vars(ResErrorAfterStop(id, l))

SpecSettle == InitChannel /\ [][NextSettle]_vars /\ Delivery

\* One model downloaded by two calls at once, each call made once, against a server that
\* answers 200 and a disk that works; the response may fail, and cancel may come at any
\* moment.
NextSameId ==
  \/ \E id \in CatalogIds, l \in Lanes :
       /\ transfers[id][l].promise = "none"
       /\ \A j \in CatalogIds \ {id} : transfers[j]["a"].promise = "none"
       /\ DownloadModel(id, l)
  \/ \E id \in CatalogIds, l \in Lanes, r \in {x \in Responses : x.status = 200} :
       Response(id, l, r)
  \/ \E id \in CatalogIds, l \in Lanes : FileOpened(id, l)
  \/ \E id \in CatalogIds, l \in Lanes : ResData(id, l)
  \/ \E id \in CatalogIds, l \in Lanes : ResEnd(id, l)
  \/ \E id \in CatalogIds, l \in Lanes : FileFinish(id, l)
  \/ \E id \in CatalogIds, l \in Lanes : CloseCallback(id, l)
  \/ \E id \in CatalogIds, l \in Lanes : ResError(id, l)
  \/ \E id \in ModelIds : CancelDownload(id)

SpecSameId == InitChannel /\ [][NextSameId]_vars

\* Transfers of different models side by side, each model downloaded once, against a
\* server that answers 200 and a disk that works; every call, with every id.
NextModels ==
  \/ \E id \in CatalogIds : transfers[id]["a"].promise = "none" /\ DownloadModel(id, "a")
  \/ \E id \in ModelIds : DownloadUnknown(id)
  \/ \E id \in CatalogIds, r \in {x \in Responses : x.status = 200} : Response(id, "a", r)
  \/ \E id \in CatalogIds : FileOpened(id, "a")
  \/ \E id \in CatalogIds : ResData(id, "a")
  \/ \E id \in CatalogIds : ResEnd(id, "a")
  \/ \E id \in CatalogIds : FileFinish(id, "a")
  \/ \E id \in CatalogIds : CloseCallback(id, "a")
  \/ \E id \in CatalogIds : ResError(id, "a")
  \/ \E id \in ModelIds : CancelDownload(id)
  \/ \E id \in ModelIds : DeleteModel(id)
  \/ \E id \in ModelIds : GetPath(id)
  \/ GetInstalledModels

SpecModels == InitChannel /\ [][NextModels]_vars

\* Catalog sizes and file sizes isComplete is applied to: around both ends of the range.
ExpectedSizes == {BodyChunks, 20, 100, 999, 1000, 1001, 2048}

ActualSizes(expectedSize) ==
  {a \in 0..(2 * expectedSize) :
     \/ a = expectedSize
     \/ 100 * a - 95 * expectedSize \in -800..800
     \/ 100 * a - 105 * expectedSize \in -800..800}

\* getInstalledModels computes `complete` for a file of actualSize bytes.
CheckComplete(actualSize, expectedSize) ==
  /\ lastOp' = [op |-> "isComplete", id |-> Absent,
                ret |-> [installedSize |-> actualSize, sizeBytes |-> expectedSize,
                         complete |-> IsComplete(actualSize, expectedSize)]]
  /\ UNCHANGED <<activeDownloads, transfers, files>>
  /\ UNCHANGED <<rpcVars, assetRun, manager>>

NextSizes == \E e \in ExpectedSizes : \E a \in ActualSizes(e) : CheckComplete(a, e)

SpecSizes == InitChannel /\ [][NextSizes]_vars

\* ------------------------------------------- scripts/download-assets.js
\* main() calls downloadAsset for the next entry of the manifest. A failed asset ends
\* the process, so there is a next one only after a success.
DownloadAsset(asset, platform) ==
  /\ assetRun.pc \in {"idle", "done"}
  /\ assetRun.platform \in {"unset", platform}
  /\ assetRun' = [NoRun EXCEPT !.pc = "downloading", !.platform = platform, !.asset = asset,
                               !.outcome = "pending"]
  /\ UNCHANGED <<rpcVars, dlVars, manager>>

\* downloadFile resolves with the digest of the bytes it wrote to dest.
DownloadFileResolves(content) ==
  /\ assetRun.pc = "downloading"
  /\ assetRun' = [assetRun EXCEPT !.pc = "downloaded", !.dest = content,
                                  !.actualHash = Sha256(content)]
  /\ UNCHANGED <<rpcVars, dlVars, manager>>

\* downloadFile rejects: a status of 400 or more, a request or a write error. What was
\* written so far, if anything, stays at dest.
DownloadFileRejects(left) ==
  /\ assetRun.pc = "downloading"
  /\ assetRun' = [assetRun EXCEPT !.pc = "failed", !.dest = left, !.outcome = "rejected",
                                  !.error = "Download failed"]
  /\ UNCHANGED <<rpcVars, dlVars, manager>>

ChecksumMismatchNever(asset, actualHash) == FALSE

\* asset.sha256 && asset.sha256 !== 'REPLACE_ME' && actualHash !== asset.sha256
ChecksumMismatch(asset, actualHash) ==
  asset.sha256 # "" /\ asset.sha256 # REPLACE_ME /\ actualHash # asset.sha256

\* downloadAsset after downloadFile: the checksum test; on a mismatch, rm and throw.
Verify ==
  /\ assetRun.pc = "downloaded"
  /\ assetRun' = IF ChecksumMismatch(assetRun.asset, assetRun.actualHash)
                 THEN [assetRun EXCEPT !.pc = "failed", !.dest = Absent, !.outcome = "rejected",
                                       !.error = "Checksum mismatch"]
                 ELSE [assetRun EXCEPT !.pc = "verified"]
  /\ UNCHANGED <<rpcVars, dlVars, manager>>

\* parseInt(asset.mode, 8) applied by chmod, when there is a mode and chmod exists
Chmod(run) == IF run.asset.mode # "" /\ run.platform # "win32" THEN run.asset.mode ELSE Absent

\* The rest of downloadAsset: gunzip into the path without .gz and remove dest, then
\* chmod. gunzipSync throws on data that is not gzip.
Install ==
  /\ assetRun.pc = "verified"
  /\ assetRun' = IF assetRun.asset.extract = "gunzip" /\ assetRun.asset.destGz
                 THEN IF assetRun.dest = "gzip"
                      THEN [assetRun EXCEPT !.pc = "done", !.extracted = "gunzipped",
                                            !.dest = Absent, !.chmod = Chmod(assetRun),
                                            !.outcome = "resolved"]
                      ELSE [assetRun EXCEPT !.pc = "failed", !.outcome = "rejected",
                                            !.error = "incorrect header check"]
                 ELSE [assetRun EXCEPT !.pc = "done", !.chmod = Chmod(assetRun),
                                       !.outcome = "resolved"]
  /\ UNCHANGED <<rpcVars, dlVars, manager>>

NextAssets ==
  \/ \E asset \in Assets, platform \in Platforms : DownloadAsset(asset, platform)
  \/ \E content \in Contents : DownloadFileResolves(content)
  \/ \E left \in {Absent, "partial"} : DownloadFileRejects(left)
  \/ Verify
  \/ Install

SpecAssets == InitChannel /\ [][NextAssets]_vars

\* ------------------------------------------------ ModelManager.jsx
\* if (!downloadCancelled) in handleDownload: the constant its closure captured
DownloadCancelledSeen(call, state) == call.downloadCancelled

\* The user clicks Download on a model that is not being downloaded, while no progress
\* modal is open: the handleDownload of the latest render runs up to its await.
HandleDownload(modelId) ==
  /\ manager.started < MaxDownloads
  /\ manager.activeDownload = Absent
  /\ modelId \notin manager.downloading
  /\ manager' = [manager EXCEPT
                   !.handleDownload[modelId] =
                      [state |-> "awaiting", downloadCancelled |-> manager.downloadCancelled,
                       selectedModel |-> manager.selectedModel, userCancelled |-> FALSE],
                   !.downloading = @ \cup {modelId},
                   !.activeDownload = modelId,
                   !.downloadCancelled = FALSE,
                   !.started = @ + 1,
                   !.log = Append(@, <<"Starting download: ", modelId>>)]
  /\ UNCHANGED <<rpcVars, dlVars, assetRun>>

\* The user clicks Cancel in the progress modal: handleCancelDownload.
HandleCancelDownload ==
  /\ manager.activeDownload # Absent
  /\ LET id == manager.activeDownload
     IN manager' = [manager EXCEPT
                      !.cancelRequests = Append(@, id),
                      !.downloadCancelled = TRUE,
                      !.activeDownload = Absent,
                      !.log = Append(@, <<"Download cancelled: ", id>>),
                      !.handleDownload[id].userCancelled =
                         IF manager.handleDownload[id].state = "awaiting" THEN TRUE ELSE @]
  /\ UNCHANGED <<rpcVars, dlVars, assetRun>>

\* The user clicks Cancel on the card of a model that is being downloaded, once the modal
\* is gone: cancelDownload is invoked and nothing else.
CardCancel(modelId) ==
  /\ modelId \in manager.downloading
  /\ manager.activeDownload = Absent
  /\ ~manager.handleDownload[modelId].userCancelled
  /\ manager' = [manager EXCEPT !.cancelRequests = Append(@, modelId),
                                !.handleDownload[modelId].userCancelled = TRUE]
  /\ UNCHANGED <<rpcVars, dlVars, assetRun>>

\* window.aerModels.download(modelId) settles: handleDownload goes on after its await,
\* through its finally block.
DownloadReturns(modelId, result) ==
  /\ manager.handleDownload[modelId].state = "awaiting"
  /\ LET call == manager.handleDownload[modelId]
         entries == IF result.success THEN << <<"Downloaded: ", modelId>> >>
                    ELSE IF ~DownloadCancelledSeen(call, manager)
                    THEN << <<IF result.rejected THEN "Download error: " ELSE "Download failed: ",
                              result.error>> >>
                    ELSE <<>>
     IN manager' = [manager EXCEPT
                      !.handleDownload[modelId].state = "ended",
                      !.selectedModel =
                         IF result.success /\ modelId # "silero-vad" /\ call.selectedModel = Absent
                         THEN modelId ELSE @,
                      !.log = @ \o entries,
                      !.downloading = @ \ {modelId},
                      !.activeDownload = Absent]
  /\ UNCHANGED <<rpcVars, dlVars, assetRun>>

NextManager ==
  \/ \E id \in CatalogIds : HandleDownload(id)
  \/ HandleCancelDownload
  \/ \E id \in CatalogIds : CardCancel(id)
  \/ \E id \in CatalogIds, result \in DownloadResults : DownloadReturns(id, result)

SpecManager == InitChannel /\ [][NextManager]_vars

\* ------------------------------------------------- reading a data step
\* A step in which a data event of process p was handled; lastChunk' is its chunk.
DataOn(p) == Len(stdoutBuf'[p]) < Len(stdoutBuf[p])

\* Tokens i, i+1 of text are one whole line holding a JSON object.
WholeLineAt(text, i) ==
  /\ i + 1 <= Len(text)
  /\ text[i].t = "open"
  /\ text[i + 1].t = "rb"
  /\ (i = 1 \/ text[i - 1].t = "nl")
  /\ (i + 1 = Len(text) \/ text[i + 2].t = "nl")

\* The first whole line of text that is a response carrying id k (0 when none).
FirstResponseFor(text, k) ==
  LET hits == {i \in 1..Len(text) :
                 WholeLineAt(text, i) /\ IsResponse(text[i].m) /\ text[i].m.id = k}
  IN IF hits = {} THEN 0 ELSE CHOOSE i \in hits : \A j \in hits : i <= j

\* ---------------------------------------------------------------- claims

\* C1: whatever number of calls is in flight and in whatever order the response
\* lines arrive, a call leaves the pending state only in a data step whose chunk
\* holds a response line carrying that call's own id, and it resolves with that
\* line's result (or rejects when that line carries an error).
C1_SettledOnlyByOwnId ==
  [][\A k \in 1..MaxCalls :
       (calls[k].state = "pending" /\ calls'[k].state # "pending") =>
         \E p \in 1..MaxProcs :
           /\ DataOn(p)
           /\ \E i \in 1..Len(lastChunk') :
                /\ WholeLineAt(lastChunk', i)
                /\ lastChunk'[i].m.id = k
                /\ IF lastChunk'[i].m.error
                   THEN calls'[k].state = "rejected"
                   ELSE calls'[k].state = "resolved" /\ calls'[k].value = lastChunk'[i].m.result]_vars

\* Two calls in flight, answered in reverse order in one chunk: each got its own result.
C1_Witness ==
  /\ lastChunk = EncodeMsg(OkResponse(2, ResultOf(2))) \o <<NL>>
                   \o EncodeMsg(OkResponse(1, ResultOf(1))) \o <<NL>>
  /\ calls[1].state = "resolved" /\ calls[1].value = ResultOf(1)
  /\ calls[2].state = "resolved" /\ calls[2].value = ResultOf(2)

\* C2 (as claimed): when a worker process emits exit, every call pending at
\* that moment is rejected and the pending map is empty afterwards.
C2_ExitRejectsAllPending ==
  [][\A p \in 1..Len(procs) :
       (procs[p].status = "running" /\ procs'[p].status = "exited") =>
         /\ pending' = {}
         /\ \A k \in pending : calls'[k].state = "rejected"]_vars

\* C3 (as claimed): a response line split over several chunks is buffered until
\* its newline arrives and is then dispatched: once the text delivered since the
\* last newline, followed by this chunk, holds a complete response line for a
\* pending call, that call is no longer pending.
C3_SplitLineIsDispatched ==
  [][\A p \in 1..MaxProcs :
       DataOn(p) =>
         \A k \in pending :
           LET text == held[p] \o lastChunk'
               i == FirstResponseFor(text, k)
           IN (i # 0 /\ i + 2 <= Len(text)) => k \notin pending']_vars

\* C4: a chunk that holds a line that is not valid JSON settles exactly the
\* pending calls for which it also holds a whole response line, before or after
\* the bad line, each according to its own response; every other call stays as
\* it was.
C4_GarbageLineOnlySkipped ==
  [][\A p \in 1..MaxProcs :
       (DataOn(p) /\ \E j \in 1..Len(lastChunk') : lastChunk'[j].t = "junk") =>
         \A k \in 1..MaxCalls :
           LET i == FirstResponseFor(lastChunk', k)
           IN IF k \in pending /\ i # 0
              THEN /\ k \notin pending'
                   /\ calls'[k].state = IF lastChunk'[i].m.error THEN "rejected" ELSE "resolved"
                   /\ ~lastChunk'[i].m.error => calls'[k].value = lastChunk'[i].m.result
              ELSE /\ calls'[k] = calls[k]
                   /\ (k \in pending') = (k \in pending)]_vars

\* A bad line came first in the chunk and the response after it still resolved its call.
C4_Witness ==
  /\ lastChunk = GarbageText \o <<NL>> \o EncodeMsg(OkResponse(1, ResultOf(1))) \o <<NL>>
  /\ calls[1].state = "resolved" /\ calls[1].value = ResultOf(1)
  /\ 1 \notin pending

\* The Error message the claim expects for a response that carries an error.
C5_ClaimedText(m) == IF m.errmsg = Absent THEN GenericRuntimeError ELSE m.errmsg

\* The Error message for an error whose message is absent or the empty string.
C5_AmendedText(m) ==
  IF m.errmsg = Absent \/ m.errmsg = "" THEN GenericRuntimeError ELSE m.errmsg

\* C5 (as claimed): a response matching a pending call settles it and removes
\* its entry; with an error field it rejects with error.message verbatim, or
\* with 'Runtime error' when error.message is absent; otherwise it resolves with
\* the result.
C5_AsClaimed ==
  [][\A p \in 1..MaxProcs :
       DataOn(p) =>
         \A k \in pending :
           LET i == FirstResponseFor(lastChunk', k)
           IN i # 0 =>
                /\ k \notin pending'
                /\ IF lastChunk'[i].m.error
                   THEN /\ calls'[k].state = "rejected"
                        /\ calls'[k].value = C5_ClaimedText(lastChunk'[i].m)
                   ELSE /\ calls'[k].state = "resolved"
                        /\ calls'[k].value = lastChunk'[i].m.result]_vars

\* C5 (amended): as claimed, except that 'Runtime error' is also the message
\* when error.message is the empty string.
C5_MatchingResponseSettles ==
  [][\A p \in 1..MaxProcs :
       DataOn(p) =>
         \A k \in pending :
           LET i == FirstResponseFor(lastChunk', k)
           IN i # 0 =>
                /\ k \notin pending'
                /\ IF lastChunk'[i].m.error
                   THEN /\ calls'[k].state = "rejected"
                        /\ calls'[k].value = C5_AmendedText(lastChunk'[i].m)
                   ELSE /\ calls'[k].state = "resolved"
                        /\ calls'[k].value = lastChunk'[i].m.result]_vars

\* An error response whose message is the empty string was delivered and
\* rejected its call with the generic text.
C5_Witness ==
  /\ lastChunk = EncodeMsg(ErrResponse(1, "")) \o <<NL>>
  /\ calls[1].state = "rejected" /\ calls[1].value = GenericRuntimeError
  /\ 1 \notin pending

\* The process the module spawned last has emitted exit.
LastWorkerExited == procs # <<>> /\ procs[Len(procs)].status = "exited"

\* C6: after the worker process has exited, the next sendRpc, with auto-start
\* enabled and the binary in place, spawns a fresh process, makes it the runtime
\* process and writes its request to that process's stdin; with auto-start
\* disabled it throws 'Runtime process is not running' and spawns nothing.
C6_RestartAfterExit ==
  [][(lastCall' # lastCall /\ LastWorkerExited) =>
       IF shouldAutoStart
       THEN binaryExists =>
              /\ Len(procs') = Len(procs) + 1
              /\ runtimeProcess' = Len(procs')
              /\ procs'[Len(procs')].status = "spawning"
              /\ lastCall'.kind = "promise"
              /\ Len(procs'[Len(procs')].stdin) = 1
              /\ procs'[Len(procs')].stdin[1].id = lastCall'.id
              /\ \A p \in 1..Len(procs) : procs'[p] = procs[p]
       ELSE /\ lastCall'.kind = "throw"
            /\ lastCall'.msg = <<NotRunningMessage>>
            /\ procs' = procs]_vars

\* The first worker exited; a sendRpc then spawned the second and wrote its request to it.
C6_Witness ==
  /\ shouldAutoStart
  /\ Len(procs) = 2
  /\ procs[1].status = "exited"
  /\ runtimeProcess = 2
  /\ procs[2].trigger # NoId
  /\ Len(procs[2].stdin) = 1
  /\ procs[2].stdin[1].id = procs[2].trigger

\* C7 (as claimed): once a process spawned by a sendRpc call has reported a
\* spawn failure through its 'error' event, the call that triggered the spawn
\* has been rejected.
C7_SpawnErrorFailsTriggeringCall ==
  \A p \in 1..Len(procs) :
    (procs[p].status = "failed" /\ procs[p].trigger # NoId) =>
      calls[procs[p].trigger].state = "rejected"

\* The text names the path of the runtime binary.
NamesRuntimePath(msg) == \E i \in 1..Len(msg) : msg[i] = RuntimePath

\* C8 (as claimed): with the runtime binary missing and nothing ever spawned, a
\* sendRpc that fails has spawned no process, has registered no pending call,
\* and its error names the expected binary path.
C8_MissingBinaryErrorNamesPath ==
  (lastCall.kind = "throw" /\ shouldAutoStart /\ ~binaryExists /\ procs = <<>>) =>
    /\ pending = {}
    /\ rpcCounter = 1
    /\ NamesRuntimePath(lastCall.msg)

\* Every request written so far, to any process, in stdin order per process.
RequestIds(p) == {procs[p].stdin[i].id : i \in 1..Len(procs[p].stdin)}

AllRequestIds == UNION {RequestIds(p) : p \in 1..Len(procs)}

StdinIncreasing(p) ==
  \A i, j \in 1..Len(procs[p].stdin) : i < j => procs[p].stdin[i].id < procs[p].stdin[j].id

\* C9 (as claimed): on every worker process the first request written carries
\* id 1 and the ids written to it increase.
C9_AsClaimed ==
  \A p \in 1..Len(procs) :
    procs[p].stdin # <<>> => (procs[p].stdin[1].id = 1 /\ StdinIncreasing(p))

\* C9 (amended): ids come from one counter for all worker processes, starting
\* at 1 and never reset: the requests written so far carry exactly the ids
\* 1 .. rpcCounter-1, no id was written twice (to the same or to different
\* processes), each stdin holds its requests in increasing id order, and the
\* latest accepted call holds the largest id.
C9_IdsFromOneCounter ==
  /\ AllRequestIds = 1..(rpcCounter - 1)
  /\ \A p, q \in 1..Len(procs) : p # q => RequestIds(p) \cap RequestIds(q) = {}
  /\ \A p \in 1..Len(procs) : StdinIncreasing(p)
  /\ lastCall.kind = "promise" => lastCall.id = rpcCounter - 1

\* Request 1 went to the first process, request 2 is the first one of the second.
C9_Witness ==
  /\ Len(procs) = 2
  /\ Len(procs[1].stdin) = 1 /\ procs[1].stdin[1].id = 1
  /\ Len(procs[2].stdin) = 1 /\ procs[2].stdin[1].id = 2

\* C10: a chunk whose only complete JSON lines are responses with ids that
\* match no pending call changes neither the pending map, nor any promise, nor
\* the request-id counter, nor what was sent to the window.
C10_UnmatchedResponseDropped ==
  [][\A p \in 1..MaxProcs :
       ( /\ DataOn(p)
         /\ \E i \in 1..Len(lastChunk') : WholeLineAt(lastChunk', i)
         /\ \A i \in 1..Len(lastChunk') :
              WholeLineAt(lastChunk', i) =>
                (IsResponse(lastChunk'[i].m) /\ lastChunk'[i].m.id \notin pending) )
       => UNCHANGED <<pending, calls, rpcCounter, windowSent, runtimeProcess, procs>>]_vars

\* A response for id 2 arrived while only call 1 was allocated and pending.
C10_Witness ==
  /\ lastChunk = EncodeMsg(OkResponse(2, ResultOf(2))) \o <<NL>>
  /\ pending = {1}
  /\ rpcCounter = 2
  /\ calls[1].state = "pending"
  /\ calls[2].state = "none"

\* The event messages of the whole lines of text from token i on, in order.
RECURSIVE EventsFrom(_, _)
EventsFrom(text, i) ==
  IF i > Len(text) THEN <<>>
  ELSE (IF WholeLineAt(text, i) /\ IsEvent(text[i].m) THEN <<text[i].m>> ELSE <<>>)
         \o EventsFrom(text, i + 1)

\* C11: events that arrive while there is no main window are dropped: nothing
\* is sent for them then or later, and a chunk of nothing but events settles no
\* call; events that arrive while there is a window are each sent to it once,
\* unchanged and in order; no other step sends anything to the window.
C11_EventsForwardedOrDropped ==
  [][/\ \A p \in 1..MaxProcs :
          DataOn(p) =>
            /\ windowSent' = IF mainWindow
                             THEN windowSent \o EventsFrom(lastChunk', 1)
                             ELSE windowSent
            /\ (\A i \in 1..Len(lastChunk') :
                  WholeLineAt(lastChunk', i) => IsEvent(lastChunk'[i].m))
                 => (pending' = pending /\ calls' = calls)
     /\ (\A p \in 1..MaxProcs : ~DataOn(p)) => windowSent' = windowSent]_vars

\* An event line arrived whole while there was no window; a window was set
\* afterwards and has received nothing.
C11_Witness ==
  /\ lastChunk = EncodeMsg(EventMsg("log")) \o <<NL>>
  /\ mainWindow
  /\ windowSent = <<>>
  /\ linesWritten = 1

\* ------------------------------------------------- reading the models directory
\* What a reader of the directory can tell about a file: whether it is there, and its size.
Content(f) == <<f.exists, f.size>>

Whole(f) == f.exists /\ f.size = BodyChunks

Dest(id) == DestPath(FindModel(id))

Temp(id) == TempPath(FindModel(id))

\* C12: a reader never finds a partially written file under a model's final name. After
\* every step, a file under the final name holds a whole body, so list-installed reports
\* the whole size and get-path names a whole file; and content appears under the final
\* name in one way only, as the whole temp file moved there, the temp name gone.
C12_NoPartialFinalFile ==
  [][\A id \in CatalogIds :
       /\ files'[Dest(id)].exists => Whole(files'[Dest(id)])
       /\ \A e \in InstalledModels(files') : e.installedSize = BodyChunks
       /\ GetPathResult(files', id) # "null" => Whole(files'[GetPathResult(files', id)])
       /\ (files'[Dest(id)].exists /\ Content(files'[Dest(id)]) # Content(files[Dest(id)]))
            => /\ Whole(files[Temp(id)])
               /\ ~files'[Temp(id)].exists
               /\ Content(files'[Dest(id)]) = Content(files[Temp(id)])]_vars

\* A list-installed query made while half of the body is in the temp file finds nothing.
C12_Witness ==
  /\ lastOp = [op |-> "list", id |-> Absent, ret |-> {}]
  /\ transfers["base"]["a"].res = "flowing"
  /\ files[Temp("base")].exists
  /\ files[Temp("base")].size = 1

\* C13: a cancel that finds a handle stops the transfer for good: whatever the moment the
\* handle's abort was invoked at, no file written by that transfer is ever under the
\* final name and its promise is never resolved.
C13_CancelledNeverCommits ==
  \A id \in CatalogIds, l \in Lanes :
    transfers[id][l].aborts > 0 =>
      /\ ~(files[Dest(id)].exists /\ files[Dest(id)].by = l)
      /\ transfers[id][l].promise # "resolved"

\* C14: from the call of downloadModel until its promise settles, a cancelDownload for
\* the same id finds a handle: it returns true and destroys the response stream.
C14_HandleForWholeTransfer ==
  [][\A id \in CatalogIds, l \in Lanes :
       (CancelDownload(id) /\ transfers[id][l].promise = "pending")
         => /\ lastOp'.ret = "true"
            /\ transfers'[id][l].aborts = transfers[id][l].aborts + 1]_vars

\* A step in which a transfer fails: an error event of its request, its response or its
\* write stream, or a response with a status of 400 or more.
Fails(id, l) ==
  \/ RequestError(id, l)
  \/ ResError(id, l)
  \/ FileError(id, l)
  \/ \E r \in Responses : r.status >= 400 /\ Response(id, l, r)

\* C15: every failure of a transfer rejects its promise, and a transfer whose promise is
\* rejected has left no temp file and no file of its own under the final name.
C15_FailureRejectsAndCleans ==
  [][\A id \in CatalogIds, l \in Lanes :
       /\ Fails(id, l) => transfers'[id][l].promise = "rejected"
       /\ transfers'[id][l].promise = "rejected"
            => /\ ~files'[Temp(id)].exists
               /\ ~(files'[Dest(id)].exists /\ files'[Dest(id)].by = l)]_vars

\* C16: once the promise of a transfer has settled, the registry holds no handle of that
\* transfer.
C16_HandleNeverOutlivesTransfer ==
  \A id \in CatalogIds, l \in Lanes :
    transfers[id][l].promise \in {"resolved", "rejected"} => activeDownloads[id] # l

Changed(id) ==
  \/ activeDownloads'[id] # activeDownloads[id]
  \/ transfers'[id] # transfers[id]
  \/ files'[Dest(id)] # files[Dest(id)]
  \/ files'[Temp(id)] # files[Temp(id)]

\* C18: downloads of different models do not touch each other: no step changes what
\* belongs to two models, and a call that names one model changes nothing of another.
C18_DistinctIdsIndependent ==
  [][\A a \in CatalogIds : \A b \in CatalogIds \ {a} :
       /\ ~(Changed(a) /\ Changed(b))
       /\ (lastOp' # lastOp /\ lastOp'.id = a) => ~Changed(b)]_vars

\* One model's transfer was cancelled while the other's went on writing.
C18_Witness ==
  /\ transfers["base"]["a"].res = "destroyed"
  /\ activeDownloads["base"] = NoHandle
  /\ transfers["silero-vad"]["a"].res = "flowing"
  /\ activeDownloads["silero-vad"] = "a"
  /\ files[Temp("silero-vad")].size = 1

\* C19: a transfer sends one GET for the first URL and one more for each redirect it is
\* served; a redirect creates no file; and when the promise resolves, it resolves with
\* the final path, the whole body is under the final name and no temp file is left.
C19_RedirectsFollowed ==
  [][\A id \in CatalogIds, l \in Lanes :
       /\ transfers'[id][l].promise # "none" => transfers'[id][l].gets = transfers'[id][l].served + 1
       /\ transfers'[id][l].served > transfers[id][l].served => files' = files
       /\ (transfers[id][l].promise = "pending" /\ transfers'[id][l].promise = "resolved")
            => /\ transfers'[id][l].value = Dest(id)
               /\ Whole(files'[Dest(id)])
               /\ files'[Dest(id)].by = l
               /\ ~files'[Temp(id)].exists]_vars

\* A download that was redirected twice and then completed.
C19_Witness ==
  /\ transfers["base"]["a"].promise = "resolved"
  /\ transfers["base"]["a"].served = 2
  /\ transfers["base"]["a"].gets = 3
  /\ files[Dest("base")].exists
  /\ ~files[Temp("base")].exists

\* C20: delete, get-path and download of an id that is in no catalog each end in the
\* 'Unknown model' error, which no call for a catalog model returns.
C20_UnknownIdIsHardError ==
  (lastOp.op \in {"delete", "getPath", "download"} /\ lastOp.id \notin CatalogIds)
    => lastOp.ret = UnknownModelError(lastOp.id)

\* C21: deleteModel(id) for a catalog id removes the file under the final name when there
\* is one, and returns true exactly then; after a delete that removed the file, with
\* nothing having put it back, the next one returns false. For an id in no catalog it throws 'Unknown model' and no file
\* changes.
C21_DeleteReturnsRemoved ==
  [][\A id \in ModelIds :
       DeleteModel(id) =>
         IF id \notin CatalogIds
         THEN lastOp'.ret = UnknownModelError(id) /\ files' = files
         ELSE /\ lastOp'.ret = (IF files[Dest(id)].exists THEN "true" ELSE "false")
              /\ files' = [files EXCEPT ![Dest(id)] = NoFile]
              /\ ~files'[Dest(id)].exists
              /\ (lastOp = [op |-> "delete", id |-> id, ret |-> "true"] /\ ~files[Dest(id)].exists)
                   => lastOp'.ret = "false"]_vars

\* The second of two deletes of a model that had been downloaded.
C21_Witness ==
  /\ lastOp = [op |-> "delete", id |-> "base", ret |-> "false"]
  /\ transfers["base"]["a"].promise = "resolved"
  /\ ~files[Dest("base")].exists

\* C22: `complete` is true exactly when the installed size lies within five percent of
\* the catalog size, both ends included (95 * sizeBytes <= 100 * installedSize <=
\* 105 * sizeBytes); for a catalog size of 1000 the sizes 950 and 1050 are complete and
\* 949 and 1051 are not.
C22_CompleteWithinFivePercent ==
  lastOp.op = "isComplete" =>
    LET r == lastOp.ret IN
    /\ r.complete <=> (95 * r.sizeBytes <= 100 * r.installedSize
                         /\ 100 * r.installedSize <= 105 * r.sizeBytes)
    /\ (r.sizeBytes = 1000 /\ r.installedSize \in {950, 1050}) => r.complete
    /\ (r.sizeBytes = 1000 /\ r.installedSize \in {949, 1051}) => ~r.complete

C22_Witness ==
  lastOp = [op |-> "isComplete", id |-> Absent,
            ret |-> [installedSize |-> 1050, sizeBytes |-> 1000, complete |-> TRUE]]

\* C23: once a download has resolved with a path, list-installed names the model with
\* that path and with an installed size equal to the number of body bytes received, for
\* as long as no delete or later download of that model changes the file; and by the time
\* of the resolution onProgress was called at least once, with totalBytes equal to the
\* Content-Length header of the response, or to the catalog size when there is none.
Resolves(id, l) ==
  transfers[id][l].promise = "pending" /\ transfers'[id][l].promise = "resolved"

ClaimedTotal(tr, id) ==
  IF tr.contentLength = <<>> THEN FindModel(id).sizeBytes ELSE ParseInt(tr.contentLength).n

C23_ResolvedIsListedAfterProgress ==
  [][\A id \in CatalogIds :
       /\ \A l \in Lanes :
            Resolves(id, l) =>
              LET tr == transfers'[id][l]
              IN /\ \E e \in InstalledModels(files') :
                      e.id = id /\ e.path = tr.value /\ e.installedSize = tr.downloadedBytes
                 /\ \E i \in 1..Len(tr.progress) :
                      tr.progress[i].totalBytes = ClaimedTotal(tr, id)
       /\ Content(files'[Dest(id)]) # Content(files[Dest(id)])
            => DeleteModel(id) \/ \E l \in Lanes : Resolves(id, l)]_vars

\* C24: after the download of an asset, a given checksum that is not the sentinel and
\* differs from the digest of the downloaded bytes makes downloadAsset delete the file and
\* fail, with no gunzip and no chmod for that asset; a checksum equal to the digest, or
\* the sentinel, lets the processing go on to extraction and chmod.
C24_ChecksumMismatchFailsHard ==
  [][Verify =>
       LET expected == assetRun.asset.sha256
           digest == assetRun.actualHash
       IN /\ (expected # "" /\ expected # "REPLACE_ME" /\ expected # digest)
               => /\ assetRun'.dest = Absent
                  /\ assetRun'.outcome = "rejected"
                  /\ assetRun'.pc = "failed"
                  /\ assetRun'.extracted = Absent /\ assetRun'.chmod = Absent
          /\ (expected = digest \/ expected = "REPLACE_ME")
               => /\ assetRun'.outcome = "pending"
                  /\ assetRun'.dest = assetRun.dest
                  /\ assetRun'.pc = "verified"]_vars

C24_Witness ==
  /\ assetRun.pc = "failed"
  /\ assetRun.error = "Checksum mismatch"
  /\ assetRun.asset = [sha256 |-> Sha256("plain"), extract |-> "gunzip", destGz |-> TRUE,
                       mode |-> "755"]
  /\ assetRun.actualHash = Sha256("gzip")

\* C25: a sendRpc call that throws because no worker process is running consumes no
\* request id, adds no pending entry, touches no promise, spawns no process and writes
\* to no stdin.
C25_FailedCallLeavesRpcState ==
  [][\A m \in Methods :
       (SendRpc(m) /\ lastCall'.kind = "throw") =>
         /\ rpcCounter' = rpcCounter
         /\ pending' = pending
         /\ calls' = calls
         /\ procs' = procs
         /\ runtimeProcess' = runtimeProcess]_vars

\* A call was made and is pending; its worker exited and the binary went away; the next
\* call threw.
C25_Witness ==
  /\ lastCall.kind = "throw"
  /\ rpcCounter = 2
  /\ pending = {1}
  /\ procs[1].status = "exited"
  /\ Len(procs[1].stdin) = 1

\* C26: a promise is settled at most once and its pending entry goes at that moment: a
\* call is in the pending map exactly while its promise is pending, a settled promise
\* never changes again, and a chunk whose whole lines are all responses for ids settled
\* before changes neither the pending map, nor a promise, nor what the window was sent.
C26_SettledOnceAndRemoved ==
  /\ [](\A k \in 1..MaxCalls : k \in pending <=> calls[k].state = "pending")
  /\ [][/\ \A k \in 1..MaxCalls :
             calls[k].state \in {"resolved", "rejected"} => calls'[k] = calls[k]
        /\ \A p \in 1..MaxProcs :
             ( /\ DataOn(p)
               /\ \A i \in 1..Len(lastChunk') :
                    WholeLineAt(lastChunk', i) =>
                      /\ IsResponse(lastChunk'[i].m)
                      /\ calls[lastChunk'[i].m.id].state \in {"resolved", "rejected"} )
             => UNCHANGED <<pending, calls, windowSent, rpcCounter, runtimeProcess, procs>>]_vars

\* Call 1 was resolved; an error response for id 1 came afterwards and changed nothing.
C26_Witness ==
  /\ calls[1].state = "resolved"
  /\ calls[1].value = ResultOf(1)
  /\ lastChunk = EncodeMsg(ErrResponse(1, "nope")) \o <<NL>>
  /\ linesWritten = 2
  /\ 1 \notin pending

\* C27 (as claimed): the process reference is cleared only by the exit of the process it
\* refers to; the exit of another process leaves it as it is.
C27_OnlyOwnExitClears ==
  [][/\ \A p \in 1..Len(procs) :
          (procs[p].status = "running" /\ procs'[p].status = "exited" /\ runtimeProcess # p)
            => runtimeProcess' = runtimeProcess
     /\ (runtimeProcess # NoProc /\ runtimeProcess' = NoProc)
          => procs'[runtimeProcess].status = "exited"]_vars

\* C28 (as claimed): every downloadModel call for a catalog id settles in the end, while
\* the network and the disk keep delivering their events.
C28_EveryDownloadSettles ==
  \A id \in CatalogIds : \A l \in Lanes :
    (transfers[id][l].promise = "pending") ~> (transfers[id][l].promise \in {"resolved", "rejected"})

\* C29 (as claimed): while two transfers of one model are in flight, an event of one of
\* them after its response (its completion or its failure) leaves the registry handle of
\* the other in place, and neither renames nor deletes the temp file the other is writing.
C29_SameIdTransfersApart ==
  [][\A id \in CatalogIds : \A l \in Lanes : \A k \in Lanes \ {l} :
       ( /\ transfers[id][l].req = "responded"
         /\ transfers'[id][l] # transfers[id][l]
         /\ transfers'[id][k] = transfers[id][k]
         /\ transfers[id][k].promise = "pending" )
       => /\ activeDownloads[id] = k => activeDownloads'[id] = k
          /\ ( /\ transfers[id][k].file = "open"
               /\ files[Temp(id)].exists
               /\ files[Temp(id)].by = k )
             => files'[Temp(id)].exists]_vars

\* C30 (as claimed): when a download ends without success, handleDownload adds a
\* 'Download failed' entry to the log exactly when the user did not cancel that download,
\* whatever was downloaded or cancelled before in the session.
C30_FailedLoggedUnlessCancelled ==
  [][\A id \in CatalogIds : \A result \in DownloadResults :
       (DownloadReturns(id, result) /\ ~result.success /\ ~result.rejected) =>
         IF manager.handleDownload[id].userCancelled
         THEN manager'.log = manager.log
         ELSE manager'.log = Append(manager.log, <<"Download failed: ", result.error>>)]_vars

====
